---- MODULE Spec2Model ----
(***************************************************************************)
(* A model of binstar_client.Binstar (src/binstar_client/__init__.py): the *)
(* client session, the response validator, the metadata operations and the *)
(* staged upload / conditional download protocol.                          *)
(*                                                                         *)
(* Every client method is one action: the method is synchronous and        *)
(* blocking, so a call runs from its first request to its return or raise  *)
(* with nothing interleaved.  The server's answers to the requests of a    *)
(* call are inputs of the action.  The variable `last` records the call    *)
(* that has just been made: its arguments, the HTTP exchanges it issued in *)
(* order, and how it ended.                                                *)
(***************************************************************************)
EXTENDS Integers, Sequences, FiniteSets, TLC

VARIABLES
    domain,     \* self.domain
    token,      \* self.token
    headers,    \* the Authorization entry of self.session.headers
    last        \* the call just made: [op, args, reqs, outcome]

vars == <<domain, token, headers, last>>

(***************************************************************************)
(* Bounds of the model.                                                    *)
(***************************************************************************)
NTokens == 2     \* distinct authentication tokens the server may issue
NDistIds == 2    \* distinct distribution ids the server may allocate

(***************************************************************************)
(* Program constants: the HTTP status codes the code names.                *)
(***************************************************************************)
HTTP_OK == 200
HTTP_CREATED == 201
HTTP_FOUND == 302
HTTP_NOT_MODIFIED == 304

(***************************************************************************)
(* Python / JSON values, tagged so that values of different types can be   *)
(* compared.  A dict is a function from key strings to values.             *)
(***************************************************************************)
PyNone == <<"none">>
PyStr(s) == <<"str", s>>
PyInt(n) == <<"int", n>>
PyBool(b) == <<"bool", b>>
PyList(s) == <<"list", s>>
PyDict(f) == <<"dict", f>>
PyTuple(s) == <<"tuple", s>>
EmptyMap == [k \in {} |-> PyNone]

IsDict(v) == v[1] = "dict"
IsJSON(v) == v[1] # "raw"
Keys(v) == DOMAIN v[2]
Get(v, k) == v[2][k]

\* d.get(k, default)
DictGet(v, k, default) == IF k \in Keys(v) THEN Get(v, k) ELSE default

\* f with key k bound to v (d[k] = v)
SetItem(f, k, v) == [x \in (DOMAIN f) \cup {k} |-> IF x = k THEN v ELSE f[x]]

\* Python truth value of v, as tested by `if v` and `v or w`
Truthy(v) ==
    CASE v[1] = "none" -> FALSE
      [] v[1] = "str"  -> v[2] # ""
      [] v[1] = "int"  -> v[2] # 0
      [] v[1] = "bool" -> v[2]
      [] v[1] = "list" -> Len(v[2]) > 0
      [] v[1] = "dict" -> DOMAIN v[2] # {}
      [] OTHER -> TRUE

\* a or b
PyOr(a, b) == IF Truthy(a) THEN a ELSE b

(***************************************************************************)
(* json.dumps and base64.b64encode, as Python 2 runs them (a str goes      *)
(* straight into b64encode).  JSON text is a sequence of bytes over        *)
(* a reduced alphabet in which every lexical token (a punctuation mark, a  *)
(* literal, a number, a whole string) is one byte.  Base64 is computed on  *)
(* those bytes as the real encoding computes it: three bytes become four   *)
(* sextets, and 64 stands for the padding character '='.                   *)
(***************************************************************************)

\* Every string the model uses; a string's byte is its place in the table.
StrTable ==
    << "", "package", "scopes", "note", "note_url", "summary", "license",
       "name", "url", "package_type", "public", "public_attrs",
       "host_publicly", "requirements", "announce", "description", "attrs",
       "dist_id", "s3_url", "s3form_data", "error", "token", "key", "policy",
       "x", "s", "L", "u", "app", "http://app", "conda", "hello", "build",
       "T1", "T2", "T3", "T4", "boom", "https://s3/a", "https://s3/b",
       "alice", "pkg", "1.0", "f.tgz", "FD", "abc", "pw", "bytes" >>

StrCode(s) == 32 + (CHOOSE i \in 1..Len(StrTable) : StrTable[i] = s)

\* The keys of dict f, as a sequence in the order json.dumps emits them.
RECURSIVE KeySeq(_)
KeySeq(S) ==
    IF S = {} THEN <<>>
    ELSE LET k == CHOOSE x \in S : \A y \in S : StrCode(x) <= StrCode(y)
         IN  <<k>> \o KeySeq(S \ {k})

RECURSIVE dumps(_)
RECURSIVE DumpMembers(_, _)
RECURSIVE DumpItems(_)
DumpMembers(f, ks) ==
    IF Len(ks) = 0 THEN <<>>
    ELSE <<StrCode(ks[1]), 5>> \o dumps(f[ks[1]])
         \o (IF Len(ks) > 1 THEN <<6>> ELSE <<>>) \o DumpMembers(f, Tail(ks))
DumpItems(s) ==
    IF Len(s) = 0 THEN <<>>
    ELSE dumps(s[1]) \o (IF Len(s) > 1 THEN <<6>> ELSE <<>>) \o DumpItems(Tail(s))
dumps(v) ==
    CASE v[1] = "none" -> <<7>>
      [] v[1] = "bool" -> IF v[2] THEN <<8>> ELSE <<9>>
      [] v[1] = "int"  -> <<16 + v[2]>>
      [] v[1] = "str"  -> <<StrCode(v[2])>>
      [] v[1] = "list" -> <<3>> \o DumpItems(v[2]) \o <<4>>
      [] v[1] = "dict" -> <<1>> \o DumpMembers(v[2], KeySeq(DOMAIN v[2])) \o <<2>>

RECURSIVE b64encode(_)
b64encode(s) ==
    CASE Len(s) = 0 -> <<>>
      [] Len(s) = 1 -> << s[1] \div 4, (s[1] % 4) * 16, 64, 64 >>
      [] Len(s) = 2 -> << s[1] \div 4, (s[1] % 4) * 16 + s[2] \div 16,
                          (s[2] % 16) * 4, 64 >>
      [] OTHER -> << s[1] \div 4, (s[1] % 4) * 16 + s[2] \div 16,
                     (s[2] % 16) * 4 + s[3] \div 64, s[3] % 64 >>
                  \o b64encode(SubSeq(s, 4, Len(s)))

jencode(payload) == b64encode(dumps(payload))

(***************************************************************************)
(* The receiving side: base64 decoding and JSON parsing, the inverses the  *)
(* server applies to a request body.  They are used to state what a body   *)
(* carries.                                                                *)
(***************************************************************************)
RECURSIVE b64decode(_)
b64decode(t) ==
    IF Len(t) < 4 THEN <<>>
    ELSE LET b1 == t[1] * 4 + t[2] \div 16
             b2 == (t[2] % 16) * 16 + t[3] \div 4
             b3 == (t[3] % 4) * 64 + t[4]
         IN  CASE t[3] = 64 -> <<b1>>
               [] t[4] = 64 -> <<b1, b2>>
               [] OTHER -> <<b1, b2, b3>> \o b64decode(SubSeq(t, 5, Len(t)))

\* ParseValue(t, i) is <<the value that starts at t[i], the index after it>>.
RECURSIVE ParseValue(_, _)
RECURSIVE ParseMembers(_, _, _)
RECURSIVE ParseItems(_, _, _)
ParseMembers(t, i, f) ==
    LET k == StrTable[t[i] - 32]
        r == ParseValue(t, i + 2)
        g == SetItem(f, k, r[1])
    IN  IF t[r[2]] = 6 THEN ParseMembers(t, r[2] + 1, g)
        ELSE <<PyDict(g), r[2] + 1>>
ParseItems(t, i, s) ==
    LET r == ParseValue(t, i)
    IN  IF t[r[2]] = 6 THEN ParseItems(t, r[2] + 1, Append(s, r[1]))
        ELSE <<PyList(Append(s, r[1])), r[2] + 1>>
ParseValue(t, i) ==
    CASE t[i] = 7 -> <<PyNone, i + 1>>
      [] t[i] = 8 -> <<PyBool(TRUE), i + 1>>
      [] t[i] = 9 -> <<PyBool(FALSE), i + 1>>
      [] t[i] = 1 -> IF t[i + 1] = 2 THEN <<PyDict(EmptyMap), i + 2>>
                     ELSE ParseMembers(t, i + 1, EmptyMap)
      [] t[i] = 3 -> IF t[i + 1] = 4 THEN <<PyList(<<>>), i + 2>>
                     ELSE ParseItems(t, i + 1, <<>>)
      [] t[i] >= 16 /\ t[i] < 32 -> <<PyInt(t[i] - 16), i + 1>>
      [] OTHER -> <<PyStr(StrTable[t[i] - 32]), i + 1>>

loads(t) == ParseValue(t, 1)[1]
jdecode(data) == loads(b64decode(data))

(***************************************************************************)
(* How a call ends, and the record of a call.                              *)
(***************************************************************************)
Return(v) == [kind |-> "return", exc |-> "", args |-> <<>>, value |-> v]
Raise(e, a) == [kind |-> "raise", exc |-> e, args |-> a, value |-> PyNone]
\* What a statement that did not raise leaves behind: execution goes on.
Passed == [kind |-> "pass", exc |-> "", args |-> <<>>, value |-> PyNone]

BinstarError(msg, status_code) == Raise("BinstarError", <<msg, status_code>>)

Call(op, a, reqs, outcome) ==
    [op |-> op, args |-> a, reqs |-> reqs, outcome |-> outcome]

(***************************************************************************)
(* HTTP.  A request records what the code passes to the transport; a       *)
(* request made through self.session carries the session's Authorization   *)
(* header, a request made through the requests module carries none.        *)
(***************************************************************************)
NoAuth == <<"noauth">>
\* 'token %s' % (token)
TokenHeader(t) == <<"hdr", "token", t>>

\* '%s/...' % (...): the formatted URL, as its segments
Format(segs) == <<"fmt", segs>>

SessionRequest(h, method, url, auth, data, hdrs, redirects) ==
    [via |-> "session", method |-> method, url |-> url, authorization |-> h,
     auth |-> auth, data |-> data, files |-> PyNone, headers |-> hdrs,
     allow_redirects |-> redirects, stream |-> FALSE, verify |-> TRUE]

\* Mutant: the request is sent through the client's session instead.
ModuleRequestThroughSession(method, url, data, files, stream) ==
    [via |-> "session", method |-> method, url |-> url,
     authorization |-> headers, auth |-> PyNone, data |-> data,
     files |-> files, headers |-> EmptyMap, allow_redirects |-> TRUE,
     stream |-> stream, verify |-> TRUE]

ModuleRequest(method, url, data, files, stream) ==
    [via |-> "requests", method |-> method, url |-> url,
     authorization |-> NoAuth, auth |-> PyNone, data |-> data,
     files |-> files, headers |-> EmptyMap, allow_redirects |-> TRUE,
     stream |-> stream, verify |-> TRUE]

Exchange(req, res) == [req |-> req, res |-> res]

\* A response body that is not JSON: res.json() raises on it.
NotJSON == <<"raw", "bytes">>

\* res.json()
json(res) == IF IsJSON(res.body) THEN Return(res.body) ELSE Raise("ValueError", <<>>)

\* obj[k] for a JSON value obj
Subscript(obj, k) ==
    IF ~IsDict(obj) THEN Raise("TypeError", <<>>)
    ELSE IF k \notin Keys(obj) THEN Raise("KeyError", <<PyStr(k)>>)
    ELSE Return(Get(obj, k))

\* res.headers['location']
LocationOf(res) ==
    IF res.location = PyNone THEN Raise("KeyError", <<PyStr("location")>>)
    ELSE Return(res.location)

\* res2.raw: the stream of the response's bytes
RawStream(res) == <<"stream", res.body>>

(***************************************************************************)
(* Binstar._check_response                                                 *)
(***************************************************************************)
check_response(res, allowed) ==
    IF res.status \in allowed THEN Passed
    ELSE IF ~IsJSON(res.body)
         THEN BinstarError(PyStr("Undefined error"), res.status)
    ELSE IF ~IsDict(res.body)
         THEN Raise("AttributeError", <<>>)
    ELSE BinstarError(DictGet(res.body, "error", PyStr("Undefined error")),
                      res.status)

\* self._check_response(res); return res.json()
ReturnJson(res) ==
    LET c == check_response(res, {HTTP_OK})
    IN  IF c.kind = "raise" THEN c ELSE json(res)

(***************************************************************************)
(* Binstar.__init__                                                        *)
(***************************************************************************)
InitHeaders(t) == IF Truthy(t) THEN TokenHeader(t) ELSE NoAuth

(***************************************************************************)
(* Binstar.authenticate                                                    *)
(***************************************************************************)
AuthenticateRequest(h, d, a) ==
    LET url == Format(<<d, PyStr("authentications")>>)
        payload == PyDict([scopes |-> a.scopes, note |-> a.application,
                           note_url |-> a.application_url])
        data == b64encode(dumps(payload))
    IN  SessionRequest(h, "POST", url, PyTuple(<<a.username, a.password>>),
                       data, EmptyMap, TRUE)

\* res = r.json(); token = res['token']
AuthenticateToken(r) ==
    LET res == json(r)
    IN  IF res.kind = "raise" THEN res ELSE Subscript(res.value, "token")

\* Mutant: the header is updated before the token is known to be there
\* (token = res.get('token')).
AuthenticateHeadersEager(h, r) == TokenHeader(AuthenticateToken(r).value)

\* The session's Authorization header after authenticate got response r.
AuthenticateHeaders(h, r) ==
    LET t == AuthenticateToken(r)
    IN  IF t.kind = "raise" THEN h ELSE TokenHeader(t.value)

(***************************************************************************)
(* The metadata operations                                                 *)
(***************************************************************************)
UserRequest(h, d, login) ==
    LET url == IF Truthy(login) THEN Format(<<d, PyStr("user"), login>>)
               ELSE Format(<<d, PyStr("user")>>)
    IN  SessionRequest(h, "GET", url, PyNone, PyNone, EmptyMap, TRUE)

UserPackagesRequest(h, d, login) ==
    LET url == IF Truthy(login) THEN Format(<<d, PyStr("packages"), login>>)
               ELSE Format(<<d, PyStr("packages")>>)
    IN  SessionRequest(h, "GET", url, PyNone, PyNone, EmptyMap, TRUE)

PackageRequest(h, d, login, package_name) ==
    LET url == Format(<<d, PyStr("package"), login, package_name>>)
    IN  SessionRequest(h, "GET", url, PyNone, PyNone, EmptyMap, TRUE)

AllPackagesRequest(h, d, modified_after) ==
    LET url == Format(<<d, PyStr("package_listing")>>)
        data == PyDict([modified_after |-> PyOr(modified_after, PyStr(""))])
    IN  SessionRequest(h, "GET", url, PyNone, data, EmptyMap, TRUE)

\* Mutant: a summary the caller put in attrs is kept
\* (attrs.setdefault('summary', summary)).
AddPackageAttrsSetDefault(a) ==
    LET attrs0 == PyOr(a.attrs, PyDict(EmptyMap))[2]
        attrs1 == IF "summary" \in DOMAIN attrs0 THEN attrs0
                  ELSE SetItem(attrs0, "summary", a.summary)
    IN  PyDict(SetItem(attrs1, "license",
                       PyDict([name |-> a.license, url |-> a.license_url])))

\* attrs = attrs or {}; attrs['summary'] = ...; attrs['license'] = ...
AddPackageAttrs(a) ==
    LET attrs0 == PyOr(a.attrs, PyDict(EmptyMap))[2]
        attrs1 == SetItem(attrs0, "summary", a.summary)
    IN  PyDict(SetItem(attrs1, "license",
                       PyDict([name |-> a.license, url |-> a.license_url])))

AddPackagePayload(a) ==
    PyDict([package_type |-> a.package_type,
            public |-> a.public,
            public_attrs |-> PyOr(AddPackageAttrs(a), PyDict(EmptyMap)),
            host_publicly |-> a.host_publicly])

AddPackageRequest(h, d, a) ==
    LET url == Format(<<d, PyStr("package"), a.login, a.package_name>>)
    IN  SessionRequest(h, "POST", url, PyNone, jencode(AddPackagePayload(a)),
                       EmptyMap, TRUE)

ReleaseRequest(h, d, login, package_name, version) ==
    LET url == Format(<<d, PyStr("release"), login, package_name, version>>)
    IN  SessionRequest(h, "GET", url, PyNone, PyNone, EmptyMap, TRUE)

AddReleaseRequest(h, d, a) ==
    LET url == Format(<<d, PyStr("release"), a.login, a.package_name, a.version>>)
        payload == PyDict([requirements |-> a.requirements,
                           announce |-> a.announce,
                           description |-> a.description])
    IN  SessionRequest(h, "POST", url, PyNone, jencode(payload), EmptyMap, TRUE)

(***************************************************************************)
(* Binstar.download                                                        *)
(***************************************************************************)
DownloadRequest(h, d, a) ==
    LET url == Format(<<d, PyStr("download"), a.login, a.package_name,
                        a.release, a.basename>>)
        hdrs == IF Truthy(a.md5) THEN [ETag |-> a.md5] ELSE EmptyMap
    IN  SessionRequest(h, "GET", url, PyNone, PyNone, hdrs, FALSE)

\* self._check_response(res, allowed=[302, 304]) and the branch on the
\* status: a raise, the return of None, or (pass) the redirect to follow.
DownloadFirst(res) ==
    LET c == check_response(res, {HTTP_FOUND, HTTP_NOT_MODIFIED})
    IN  IF c.kind = "raise" THEN c
        ELSE IF res.status = HTTP_NOT_MODIFIED THEN Return(PyNone)
        ELSE IF res.status = HTTP_FOUND
             THEN (LET loc == LocationOf(res)
                   IN  IF loc.kind = "raise" THEN loc ELSE Passed)
        ELSE Return(PyNone)

DownloadFollowRequest(res) ==
    ModuleRequest("GET", LocationOf(res).value, PyNone, PyNone, TRUE)

(***************************************************************************)
(* Binstar.upload                                                          *)
(***************************************************************************)
StageRequest(h, d, a) ==
    LET url == Format(<<d, PyStr("stage"), a.login, a.package_name,
                        a.release, a.basename>>)
        payload == PyDict([description |-> a.description,
                           attrs |-> PyDict(a.attrs)])
    IN  SessionRequest(h, "POST", url, PyNone, jencode(payload), EmptyMap, TRUE)

\* Mutant: the transfer is made without validating the stage response
\* (self._check_response(res) left out).
StageResultUnchecked(res) ==
    LET obj == json(res)
    IN  IF obj.kind = "raise" THEN obj
        ELSE LET s3url == Subscript(obj.value, "s3_url")
                 s3data == Subscript(obj.value, "s3form_data")
             IN  IF s3url.kind = "raise" THEN s3url
                 ELSE IF s3data.kind = "raise" THEN s3data
                 ELSE Passed

\* The stage response validated and read: a raise, or (pass) the transfer
\* can be made.
StageResult(res) ==
    LET obj == ReturnJson(res)
    IN  IF obj.kind = "raise" THEN obj
        ELSE LET s3url == Subscript(obj.value, "s3_url")
                 s3data == Subscript(obj.value, "s3form_data")
             IN  IF s3url.kind = "raise" THEN s3url
                 ELSE IF s3data.kind = "raise" THEN s3data
                 ELSE Passed

TransferRequest(obj, a) ==
    ModuleRequest("POST", Get(obj, "s3_url"), Get(obj, "s3form_data"),
                  PyDict([file |-> PyTuple(<<a.basename, a.fd>>)]), FALSE)

\* Mutant: any 2xx answer of the object store is taken for success.
TransferResultAny2xx(s3res) ==
    IF s3res.status \notin {HTTP_OK, HTTP_CREATED}
    THEN BinstarError(PyStr("Error uploading to s3"), s3res.status)
    ELSE Passed

\* if s3res.status != 201: raise BinstarError('Error uploading to s3', ...)
TransferResult(s3res) ==
    IF s3res.status # HTTP_CREATED
    THEN BinstarError(PyStr("Error uploading to s3"), s3res.status)
    ELSE Passed

\* Mutant: the whole staging descriptor is sent back (payload = obj).
CommitPayloadWholeObject(obj) ==
    LET id == Subscript(obj, "dist_id")
    IN  IF id.kind = "raise" THEN id ELSE Return(obj)

\* payload = dict(dist_id=obj['dist_id'])
CommitPayload(obj) ==
    LET id == Subscript(obj, "dist_id")
    IN  IF id.kind = "raise" THEN id ELSE Return(PyDict([dist_id |-> id.value]))

CommitRequest(h, d, a, obj) ==
    LET url == Format(<<d, PyStr("commit"), a.login, a.package_name,
                        a.release, a.basename>>)
    IN  SessionRequest(h, "POST", url, PyNone,
                       jencode(CommitPayload(obj).value), EmptyMap, TRUE)
(***************************************************************************)
(* The inputs: the arguments of the calls and the responses of the server  *)
(* and of the object store.  A response body is not JSON, JSON that is not *)
(* an object, or a JSON object with or without the fields the code reads.  *)
(***************************************************************************)
TokenPool == <<"T1", "T2", "T3", "T4">>
Tokens == {PyStr(TokenPool[i]) : i \in 1..NTokens}
DistIds == {PyInt(i) : i \in 1..NDistIds}

Domains == {PyStr("https://api.binstar.org")}
Statuses == {HTTP_OK, HTTP_CREATED, HTTP_FOUND, HTTP_NOT_MODIFIED, 403}

Response(status, body, location) ==
    [status |-> status, body |-> body, location |-> location]

ApiBodies ==
    {NotJSON, PyList(<<>>), PyDict(EmptyMap), PyDict([error |-> PyStr("boom")])}
ApiResponses == {Response(s, b, PyNone) : s \in Statuses, b \in ApiBodies}

AuthResponses ==
    ApiResponses \cup
    {Response(s, PyDict([token |-> t]), PyNone) : s \in Statuses, t \in Tokens}

StageBody(id) ==
    PyDict([s3_url |-> PyStr("https://s3/a"),
            s3form_data |-> PyDict([key |-> PyStr("f.tgz"), policy |-> PyStr("abc")]),
            dist_id |-> id])
StageBodies ==
    {StageBody(id) : id \in DistIds} \cup
    {PyDict([s3_url |-> PyStr("https://s3/b"),
             s3form_data |-> PyDict([key |-> PyStr("f.tgz")])]),
     PyDict([s3_url |-> PyStr("https://s3/b"), dist_id |-> PyInt(1)])}
StageResponses ==
    ApiResponses \cup {Response(s, b, PyNone) : s \in Statuses, b \in StageBodies}

StoreResponses == {Response(s, NotJSON, PyNone) : s \in Statuses}

DownloadResponses ==
    {Response(s, b, l) : s \in Statuses,
                         b \in {NotJSON, PyList(<<>>), PyDict([error |-> PyStr("boom")])},
                         l \in {PyNone, PyStr("https://s3/a")}}

\* Binstar(token=...): no token, the empty string, a token issued earlier
ConstructorTokens == {PyNone, PyStr(""), PyStr(TokenPool[1])}

Logins == {PyNone, PyStr("alice")}

AuthenticateArgs ==
    {[username |-> PyStr("alice"), password |-> PyStr("pw"),
      application |-> PyStr("app"), application_url |-> u,
      scopes |-> PyList(<<PyStr("package")>>)] : u \in {PyNone}}

PackageArgs == {[login |-> PyStr("alice"), package_name |-> PyStr("pkg")]}

ReleaseArgs ==
    {[login |-> PyStr("alice"), package_name |-> PyStr("pkg"),
      version |-> PyStr("1.0")]}

AddPackageArgs ==
    {[login |-> PyStr("alice"), package_name |-> PyStr("pkg"),
      package_type |-> PyStr("conda"), summary |-> s, license |-> PyStr("L"),
      license_url |-> PyStr("u"), public |-> PyBool(TRUE), attrs |-> at,
      host_publicly |-> PyNone] :
        s \in {PyStr("s")},
        at \in {PyNone, PyDict([x |-> PyInt(1)]),
                PyDict([x |-> PyInt(1), summary |-> PyStr("hello")])}}

AddReleaseArgs ==
    {[login |-> PyStr("alice"), package_name |-> PyStr("pkg"),
      version |-> PyStr("1.0"), requirements |-> PyDict(EmptyMap),
      announce |-> PyNone, description |-> PyStr("hello")]}

DownloadArgs ==
    {[login |-> PyStr("alice"), package_name |-> PyStr("pkg"),
      release |-> PyStr("1.0"), basename |-> PyStr("f.tgz"), md5 |-> m] :
        m \in {PyNone, PyStr("abc")}}

UploadArgs ==
    {[login |-> PyStr("alice"), package_name |-> PyStr("pkg"),
      release |-> PyStr("1.0"), basename |-> PyStr("f.tgz"), fd |-> PyStr("FD"),
      description |-> PyStr(""), attrs |-> at] :
        at \in {[build |-> PyInt(1)]}}

(***************************************************************************)
(* The state after construction, and one action per method.                *)
(***************************************************************************)
Init ==
    /\ domain \in Domains
    /\ token \in ConstructorTokens
    /\ headers = InitHeaders(token)
    /\ last = Call("__init__", [token |-> token, domain |-> domain], <<>>,
                   Return(PyNone))

authenticate ==
    \E a \in AuthenticateArgs :
        LET req == AuthenticateRequest(headers, domain, a)
        IN  \E r \in AuthResponses :
                /\ last' = Call("authenticate", a, <<Exchange(req, r)>>,
                                AuthenticateToken(r))
                /\ headers' = AuthenticateHeaders(headers, r)
                /\ UNCHANGED <<domain, token>>

user ==
    \E login \in Logins :
        LET req == UserRequest(headers, domain, login)
        IN  \E res \in ApiResponses :
                /\ last' = Call("user", [login |-> login],
                                <<Exchange(req, res)>>, ReturnJson(res))
                /\ UNCHANGED <<domain, token, headers>>

user_packages ==
    \E login \in Logins :
        LET req == UserPackagesRequest(headers, domain, login)
        IN  \E res \in ApiResponses :
                /\ last' = Call("user_packages", [login |-> login],
                                <<Exchange(req, res)>>, ReturnJson(res))
                /\ UNCHANGED <<domain, token, headers>>

package ==
    \E a \in PackageArgs :
        LET req == PackageRequest(headers, domain, a.login, a.package_name)
        IN  \E res \in ApiResponses :
                /\ last' = Call("package", a, <<Exchange(req, res)>>,
                                ReturnJson(res))
                /\ UNCHANGED <<domain, token, headers>>

all_packages ==
    \E m \in {PyNone, PyStr("abc")} :
        LET req == AllPackagesRequest(headers, domain, m)
        IN  \E res \in ApiResponses :
                /\ last' = Call("all_packages", [modified_after |-> m],
                                <<Exchange(req, res)>>, ReturnJson(res))
                /\ UNCHANGED <<domain, token, headers>>

add_package ==
    \E a \in AddPackageArgs :
        LET req == AddPackageRequest(headers, domain, a)
        IN  \E res \in ApiResponses :
                /\ last' = Call("add_package", a, <<Exchange(req, res)>>,
                                ReturnJson(res))
                /\ UNCHANGED <<domain, token, headers>>

release ==
    \E a \in ReleaseArgs :
        LET req == ReleaseRequest(headers, domain, a.login, a.package_name,
                                  a.version)
        IN  \E res \in ApiResponses :
                /\ last' = Call("release", a, <<Exchange(req, res)>>,
                                ReturnJson(res))
                /\ UNCHANGED <<domain, token, headers>>

add_release ==
    \E a \in AddReleaseArgs :
        LET req == AddReleaseRequest(headers, domain, a)
        IN  \E res \in ApiResponses :
                /\ last' = Call("add_release", a, <<Exchange(req, res)>>,
                                ReturnJson(res))
                /\ UNCHANGED <<domain, token, headers>>

download ==
    \E a \in DownloadArgs :
        LET req == DownloadRequest(headers, domain, a)
        IN  \E res \in DownloadResponses :
                LET x1 == Exchange(req, res)
                    first == DownloadFirst(res)
                IN  /\ IF first.kind # "pass"
                       THEN last' = Call("download", a, <<x1>>, first)
                       ELSE \E res2 \in StoreResponses :
                                last' = Call("download", a,
                                             <<x1, Exchange(DownloadFollowRequest(res), res2)>>,
                                             Return(RawStream(res2)))
                    /\ UNCHANGED <<domain, token, headers>>

upload ==
    \E a \in UploadArgs :
        LET req1 == StageRequest(headers, domain, a)
        IN  \E res1 \in StageResponses :
                LET x1 == Exchange(req1, res1)
                    staged == StageResult(res1)
                    obj == res1.body
                IN  /\ IF staged.kind = "raise"
                       THEN last' = Call("upload", a, <<x1>>, staged)
                       ELSE LET req2 == TransferRequest(obj, a)
                                payload == CommitPayload(obj)
                                req3 == CommitRequest(headers, domain, a, obj)
                            IN  \E s3res \in StoreResponses :
                                  LET x2 == Exchange(req2, s3res)
                                      moved == TransferResult(s3res)
                                  IN  IF moved.kind = "raise"
                                      THEN last' = Call("upload", a, <<x1, x2>>, moved)
                                      ELSE IF payload.kind = "raise"
                                      THEN last' = Call("upload", a, <<x1, x2>>, payload)
                                      ELSE \E res3 \in ApiResponses :
                                             last' = Call("upload", a,
                                                          <<x1, x2, Exchange(req3, res3)>>,
                                                          ReturnJson(res3))
                    /\ UNCHANGED <<domain, token, headers>>

Next ==
    \/ authenticate
    \/ user
    \/ user_packages
    \/ package
    \/ all_packages
    \/ add_package
    \/ release
    \/ add_release
    \/ download
    \/ upload

Spec == Init /\ [][Next]_vars
(***************************************************************************)
(* Properties.  They are stated over `last`, the call just made, and over  *)
(* the step that made it.                                                  *)
(***************************************************************************)
N == Len(last.reqs)
Req(i) == last.reqs[i].req
Res(i) == last.reqs[i].res

\* The request goes to the API endpoint `name` of the domain, by `method`.
IsApiRequest(req, method, name) ==
    /\ req.method = method
    /\ req.url[1] = "fmt"
    /\ req.url[2][1] = domain
    /\ req.url[2][2] = PyStr(name)

HasKeys(body, ks) == IsJSON(body) /\ IsDict(body) /\ ks \subseteq Keys(body)

MetadataGets == {"user", "user_packages", "package", "all_packages", "release"}

\* C1: the requests of an upload are a prefix of [stage POST, object-store
\* transfer POST, commit POST]: the transfer follows only a stage response
\* validated as 200, the commit follows only a transfer answered 201, no
\* phase is repeated, and nothing is requested after a failure.
C1_UploadSequence ==
    last.op = "upload" =>
        /\ N \in 1..3
        /\ IsApiRequest(Req(1), "POST", "stage")
        /\ N >= 2 => /\ Res(1).status = HTTP_OK
                     /\ Req(2).method = "POST"
                     /\ Req(2).url = Get(Res(1).body, "s3_url")
        /\ N >= 3 => /\ Res(2).status = HTTP_CREATED
                     /\ IsApiRequest(Req(3), "POST", "commit")
        /\ Res(1).status # HTTP_OK => N = 1 /\ last.outcome.kind = "raise"
        /\ (N >= 2 /\ Res(2).status # HTTP_CREATED) =>
               N = 2 /\ last.outcome.kind = "raise"
        /\ (N = 3 /\ Res(3).status # HTTP_OK) => last.outcome.kind = "raise"

\* C1 witness: an upload that issued stage, transfer and commit, in that
\* order, and whose commit was refused.
C1_Witness ==
    /\ last.op = "upload"
    /\ N = 3
    /\ Res(3).status # HTTP_OK
    /\ last.outcome.kind = "raise"

\* C2: when the stage phase succeeded and the object store answers the
\* transfer with a status other than 201, upload raises
\* BinstarError("Error uploading to s3", status) and the commit endpoint is
\* not called.
C2_TransferFailure ==
    (last.op = "upload" /\ N >= 2 /\ Res(2).status # HTTP_CREATED) =>
        /\ last.outcome = BinstarError(PyStr("Error uploading to s3"), Res(2).status)
        /\ N = 2
        /\ \A i \in 1..N : ~IsApiRequest(Req(i), "POST", "commit")

\* C2 witness: the object store refused the transfer with 403.
C2_Witness ==
    /\ last.op = "upload"
    /\ N = 2
    /\ Res(1).status = HTTP_OK
    /\ Res(2).status = 403
    /\ last.outcome.kind = "raise"

\* The stage response is 200 with s3_url, s3form_data and dist_id.
StageOk == 
    /\ Res(1).status = HTTP_OK
    /\ HasKeys(Res(1).body, {"s3_url", "s3form_data", "dist_id"})

\* C3: when stage returns 200 with {s3_url, s3form_data, dist_id}, the
\* transfer returns 201 and the commit returns 200 with JSON: the transfer
\* goes to that s3_url with s3form_data unmodified as form fields plus the
\* file field (basename, fd); the commit body decodes to exactly the dist_id
\* of that stage response; upload returns the commit response's JSON.
C3_UploadSuccess ==
    (last.op = "upload" /\ StageOk) =>
        /\ N >= 2
        /\ Req(2).url = Get(Res(1).body, "s3_url")
        /\ Req(2).data = Get(Res(1).body, "s3form_data")
        /\ Req(2).files =
               PyDict([file |-> PyTuple(<<last.args.basename, last.args.fd>>)])
        /\ Res(2).status = HTTP_CREATED =>
               /\ N = 3
               /\ IsApiRequest(Req(3), "POST", "commit")
               /\ jdecode(Req(3).data) =
                      PyDict([dist_id |-> Get(Res(1).body, "dist_id")])
               /\ (Res(3).status = HTTP_OK /\ IsJSON(Res(3).body)) =>
                      last.outcome = Return(Res(3).body)

\* C3 witness: all three phases succeeded and upload returned.
C3_Witness ==
    /\ last.op = "upload"
    /\ StageOk
    /\ N = 3
    /\ Res(2).status = HTTP_CREATED
    /\ Res(3).status = HTTP_OK
    /\ last.outcome.kind = "return"

\* C4 (as claimed): download on 304 returns None whatever the body and
\* requests nothing more; on 302 it issues exactly one further GET, to the
\* Location URL, and returns that response's raw stream; on every other
\* status it raises BinstarError and requests nothing more.
C4_Orig ==
    last.op = "download" =>
        CASE Res(1).status = HTTP_NOT_MODIFIED ->
                 N = 1 /\ last.outcome = Return(PyNone)
          [] Res(1).status = HTTP_FOUND ->
                 /\ N = 2
                 /\ Req(2).method = "GET"
                 /\ Req(2).url = Res(1).location
                 /\ last.outcome = Return(RawStream(Res(2)))
          [] OTHER ->
                 /\ N = 1
                 /\ last.outcome.kind = "raise"
                 /\ last.outcome.exc = "BinstarError"

\* The step is an authenticate call answered 200 with a JSON object that
\* has a token field.
IsTokenGrant(call) ==
    /\ call.op = "authenticate"
    /\ call.reqs[1].res.status = HTTP_OK
    /\ HasKeys(call.reqs[1].res.body, {"token"})

\* C5 (as claimed): a token is set by construction with a token or by an
\* authenticate call answered 200 with {"token": T}; every request issued
\* through the session afterwards carries Authorization: token T for the most
\* recently set T, and authenticate returns T.  As a step property: a grant
\* stores and returns its T; any other step keeps a credential that is set;
\* the session requests of a step carry the credential held before it.
C5_Orig ==
    [][ /\ \A i \in 1..Len(last'.reqs) :
               last'.reqs[i].req.via = "session" =>
                   last'.reqs[i].req.authorization = headers
        /\ IsTokenGrant(last') =>
               /\ headers' = TokenHeader(Get(last'.reqs[1].res.body, "token"))
               /\ last'.outcome = Return(Get(last'.reqs[1].res.body, "token"))
        /\ (~IsTokenGrant(last') /\ headers # NoAuth) => headers' = headers
      ]_vars

\* C6 (as claimed): authenticate fails whenever the response status is not
\* 200 or the JSON response has no token field, and then stores nothing in
\* the session; a non-200 response whose body has a token field does not
\* store that token.  Any exception counts as the failure here, so the
\* formula asks no more than the claim does.
C6_Orig ==
    [][ (last'.op = "authenticate" /\ ~IsTokenGrant(last')) =>
            /\ last'.outcome.kind = "raise"
            /\ headers' = headers
      ]_vars

\* C7 (as claimed): a metadata GET answered 200 with JSON returns that JSON;
\* answered with any other status it raises BinstarError with that status and
\* the body's error field when the body is JSON that has one, else with
\* "Undefined error".
C7_Orig ==
    last.op \in MetadataGets =>
        /\ (Res(1).status = HTTP_OK /\ IsJSON(Res(1).body)) =>
               last.outcome = Return(Res(1).body)
        /\ Res(1).status # HTTP_OK =>
               last.outcome =
                   BinstarError(IF HasKeys(Res(1).body, {"error"})
                                THEN Get(Res(1).body, "error")
                                ELSE PyStr("Undefined error"),
                                Res(1).status)

\* The caller's attrs (none given: empty) with summary and license set.
ExpectedAttrs(a) ==
    LET given == IF a.attrs = PyNone THEN EmptyMap ELSE a.attrs[2]
    IN  [k \in (DOMAIN given) \cup {"summary", "license"} |->
            IF k = "summary" THEN a.summary
            ELSE IF k = "license"
                 THEN PyDict([name |-> a.license, url |-> a.license_url])
            ELSE given[k]]

\* C8 (as claimed): the body add_package sends decodes to the caller's attrs
\* merged with summary and the license sub-object, merged with package_type,
\* public and host_publicly: one flat object.
C8_Orig ==
    last.op = "add_package" =>
        jdecode(Req(1).data) =
            PyDict([k \in (DOMAIN ExpectedAttrs(last.args))
                          \cup {"package_type", "public", "host_publicly"} |->
                       CASE k = "package_type" -> last.args.package_type
                         [] k = "public" -> last.args.public
                         [] k = "host_publicly" -> last.args.host_publicly
                         [] OTHER -> ExpectedAttrs(last.args)[k]])

\* C8 (amended): the body add_package sends decodes to an object of exactly
\* four fields, package_type, public, host_publicly and public_attrs, where
\* public_attrs is the caller's attrs with summary and license {name, url}
\* set; for attrs={"x":1}, summary="s", license="L", license_url="u",
\* public_attrs is {"x":1, "summary":"s", "license":{"name":"L","url":"u"}}.
C8_Payload ==
    last.op = "add_package" =>
        /\ IsApiRequest(Req(1), "POST", "package")
        /\ jdecode(Req(1).data) =
               PyDict([package_type |-> last.args.package_type,
                       public |-> last.args.public,
                       host_publicly |-> last.args.host_publicly,
                       public_attrs |-> PyDict(ExpectedAttrs(last.args))])
        /\ (/\ last.args.attrs = PyDict([x |-> PyInt(1)])
            /\ last.args.summary = PyStr("s")
            /\ last.args.license = PyStr("L")
            /\ last.args.license_url = PyStr("u")) =>
               Get(jdecode(Req(1).data), "public_attrs") =
                   PyDict([x |-> PyInt(1), summary |-> PyStr("s"),
                           license |-> PyDict([name |-> PyStr("L"),
                                               url |-> PyStr("u")])])

\* C8 witness: add_package was called with attrs={"x":1}, summary="s",
\* license="L", license_url="u" and its request was sent.
C8_Witness ==
    /\ last.op = "add_package"
    /\ last.args.attrs = PyDict([x |-> PyInt(1)])
    /\ last.args.summary = PyStr("s")
    /\ last.args.license = PyStr("L")
    /\ last.args.license_url = PyStr("u")
    /\ N = 1

\* C9: whatever the session's credential, the upload transfer POST and the
\* download follow-up GET carry no Authorization header, while the stage,
\* the commit and the first download request carry the session's.
C9_NoTokenToStore ==
    /\ last.op = "upload" =>
           /\ Req(1).via = "session" /\ Req(1).authorization = headers
           /\ N >= 2 => Req(2).via = "requests" /\ Req(2).authorization = NoAuth
           /\ N >= 3 => Req(3).via = "session" /\ Req(3).authorization = headers
    /\ last.op = "download" =>
           /\ Req(1).via = "session" /\ Req(1).authorization = headers
           /\ N >= 2 => Req(2).via = "requests" /\ Req(2).authorization = NoAuth

\* C9 witness: a session that holds a token completed an upload, transfer
\* and commit included.
C9_Witness ==
    /\ headers # NoAuth
    /\ last.op = "upload"
    /\ N = 3

\* C10: the session's Authorization header is changed only by authenticate:
\* every other operation, returning or raising, leaves it as it was, and so
\* does an authenticate call that raises.
C10_CredentialFrame ==
    [][ /\ last'.op # "authenticate" => headers' = headers
        /\ (last'.op = "authenticate" /\ last'.outcome.kind = "raise") =>
               headers' = headers
      ]_vars

\* C10 witness: an authenticate call raised on a session that holds a token.
C10_Witness ==
    /\ last.op = "authenticate"
    /\ last.outcome.kind = "raise"
    /\ headers # NoAuth
====
